---------------------------- MODULE Spec2Model ----------------------------
(***************************************************************************)
(* ppr (PGSD pkg repair): the stage sequencer of main.go (model.Init,      *)
(* model.Update, main), the stage handlers (runStage, runAndReport,        *)
(* checkRepoNetwork, parseRepoURLs, probeRepo), the report writer          *)
(* (writeJSONReport), the view (model.View) and the helper tail, as a      *)
(* state machine; and one call of the command executor (runCmdCapture)     *)
(* with the process it runs, step by step.                                 *)
(*                                                                         *)
(* Text is a sequence of one-byte strings, so that Len is Go's len() and   *)
(* tail() cuts bytes as the code does.  Messages, stage identifiers and    *)
(* statuses are the literals of the source and are kept as strings.        *)
(*                                                                         *)
(* The Bubble Tea runtime is modelled by what the program relies on: a     *)
(* command returned by Init/Update runs concurrently and its message is    *)
(* delivered to Update later, in any order with respect to other pending   *)
(* messages; Update calls are serial; tea.Quit ends the program.           *)
(***************************************************************************)
EXTENDS Integers, Sequences, FiniteSets, TLC

(***************************************************************************)
(* Bounds of the model (not program constants).                            *)
(***************************************************************************)
\* frames of the spinner animation (library spinner.Dot; only "it changes" matters)
SpinFrames == 2
\* number of files that may match /var/db/pkg/repo-*.sqlite*
MaxCacheFiles == 1
\* number of repository URLs parsed from pkg -vv
MaxURLs == 1
\* number of repository URLs in the study of the network check
MaxNetURLs == 3
\* number of lines of pkg -vv output in the study of the parser
MaxLines == 3
\* number of lines the external process writes in the study of the executor
MaxWrites == 3
\* number of repository URLs of a large configuration
ManyURLs == 7
\* length of a short command output line (without its newline)
ShortLen == 3
\* length of a long command output line, beyond both tail windows
LongLen == 310

(***************************************************************************)
(* Program constants.                                                      *)
(***************************************************************************)
\* runAndReport: tail(out, 200) on ok
TailOK == 200
\* runAndReport: tail(..., 300) on warn
TailWarn == 300
\* runStage: os.Geteuid() of root
RootUID == 0
\* probeRepo: lowest status code classified reachable
HTTPOkLow == 200
\* probeRepo: first status code no longer classified reachable
HTTPOkHigh == 400

StageRepoNet      == "repo_network_check"
StageDetectEnv    == "detect_env"
StageClearCache   == "clear_repo_cache"
StagePkgUpdate    == "pkg_update_force"
StagePkgCheckDA   == "pkg_check_da"
StagePkgRecompute == "pkg_check_recompute"
StageMoveLocalDB  == "move_local_sqlite"
StageComplete     == "complete"

StatusOK    == "ok"
StatusSkip  == "skip"
StatusWarn  == "warn"
StatusError == "error"

(***************************************************************************)
(* Text.                                                                   *)
(***************************************************************************)
NL == <<"\n">>

\* n copies of the byte c
Rep(c, n) == [i \in 1..n |-> c]

\* strings.Join(parts, sep)
RECURSIVE Join(_, _)
Join(parts, sep) ==
    IF Len(parts) = 0 THEN <<>>
    ELSE IF Len(parts) = 1 THEN parts[1]
    ELSE parts[1] \o sep \o Join(Tail(parts), sep)

\* the bytes of s are all c-free
Contains(s, c) == \E i \in DOMAIN s : s[i] = c

\* fmt's %d of a three-digit status code
Digits == <<"0", "1", "2", "3", "4", "5", "6", "7", "8", "9">>
FormatInt(n) ==
    <<Digits[((n \div 100) % 10) + 1], Digits[((n \div 10) % 10) + 1],
      Digits[(n % 10) + 1]>>

DetailChecked ==
    <<"C", "h", "e", "c", "k", "e", "d", " ", "/", "v", "a", "r", "/", "d",
      "b", "/", "p", "k", "g", " ", "f", "o", "r", " ", "r", "e", "p", "o",
      "-", "*", ".", "s", "q", "l", "i", "t", "e", "*">>

DetailNoURLs ==
    <<"N", "o", " ", "u", "r", "l", " ", "e", "n", "t", "r", "i", "e", "s",
      " ", "p", "a", "r", "s", "e", "d", " ", "f", "r", "o", "m", " ", "p",
      "k", "g", " ", "-", "v", "v", " ", "o", "u", "t", "p", "u", "t">>

DetailCleanState ==
    <<"P", "a", "c", "k", "a", "g", "e", " ", "d", "a", "t", "a", "b", "a",
      "s", "e", " ", "i", "s", " ", "a", "l", "r", "e", "a", "d", "y", " ",
      "i", "n", " ", "a", " ", "c", "l", "e", "a", "n", " ", "s", "t", "a",
      "t", "e">>

LocalDB ==
    <<"/", "v", "a", "r", "/", "d", "b", "/", "p", "k", "g", "/", "l", "o",
      "c", "a", "l", ".", "s", "q", "l", "i", "t", "e">>

BackupSuffix ==
    <<".", "b", "a", "k">>

Arrow ==
    <<" ", "-", ">", " ">>

CachePrefix ==
    <<"/", "v", "a", "r", "/", "d", "b", "/", "p", "k", "g", "/", "r", "e",
      "p", "o", "-">>

CacheSuffix ==
    <<".", "s", "q", "l", "i", "t", "e">>

ErrExit ==
    <<"e", "x", "i", "t", " ", "s", "t", "a", "t", "u", "s", " ", "1">>

ErrSpawn ==
    <<"e", "x", "e", "c", ":", " ", "\"", "p", "k", "g", "\"", ":", " ", "e",
      "x", "e", "c", "u", "t", "a", "b", "l", "e", " ", "f", "i", "l", "e",
      " ", "n", "o", "t", " ", "f", "o", "u", "n", "d", " ", "i", "n", " ",
      "$", "P", "A", "T", "H">>

ErrKilled ==
    <<"s", "i", "g", "n", "a", "l", ":", " ", "k", "i", "l", "l", "e", "d">>

ErrRename ==
    <<"p", "e", "r", "m", "i", "s", "s", "i", "o", "n", " ", "d", "e", "n",
      "i", "e", "d">>

URLPrefix ==
    <<"h", "t", "t", "p", "s", ":", "/", "/", "r">>

InfoOK ==
    <<" ", "(", "o", "k", ")">>

InfoParse ==
    <<" ", "(", "p", "a", "r", "s", "e", " ", "e", "r", "r", "o", "r", ":",
      " ">>

InfoTCP ==
    <<" ", "(", "t", "c", "p", " ", "c", "o", "n", "n", "e", "c", "t", " ",
      "f", "a", "i", "l", "e", "d", ":", " ">>

InfoGET ==
    <<" ", "(", "G", "E", "T", " ", "/", "m", "e", "t", "a", ".", "c", "o",
      "n", "f", " ", "f", "a", "i", "l", "e", "d", ":", " ">>

InfoStatus ==
    <<" ", "(", "G", "E", "T", " ", "/", "m", "e", "t", "a", ".", "c", "o",
      "n", "f", " ", "s", "t", "a", "t", "u", "s", " ">>

ErrNet ==
    <<"i", "/", "o", " ", "t", "i", "m", "e", "o", "u", "t">>

MarkFail ==
    <<"[", "x", "]", " ">>

URLToken ==
    <<"u", "r", "l">>

PkgHTTP ==
    <<"p", "k", "g", "+", "h", "t", "t", "p", ":", "/", "/">>

PkgHTTPS ==
    <<"p", "k", "g", "+", "h", "t", "t", "p", "s", ":", "/", "/">>

SchemeHTTP ==
    <<"h", "t", "t", "p", ":", "/", "/">>

SchemeHTTPS ==
    <<"h", "t", "t", "p", "s", ":", "/", "/">>

ABIVar ==
    <<"$", "{", "A", "B", "I", "}">>

ConfHead ==
    <<"R", "e", "p", "o", "s", "i", "t", "o", "r", "i", "e", "s", ":">>

ConfKey ==
    <<" ", " ", " ", " ", "u", "r", "l", " ", " ", " ", " ", " ", " ", " ",
      " ", " ", " ", " ", " ", " ", ":", " ", "\"">>

ConfEnd ==
    <<"\"", ",">>

LineRewrite ==
    <<" ", " ", " ", " ", "u", "r", "l", " ", " ", " ", " ", " ", " ", " ",
      " ", " ", " ", " ", " ", " ", ":", " ", "\"", "p", "k", "g", "+", "h",
      "t", "t", "p", "s", ":", "/", "/", "r", "1", "/", "$", "{", "A", "B",
      "I", "}", "\"", ",">>

LinePlain ==
    <<"u", "r", "l", ":", " ", "'", "p", "k", "g", "+", "h", "t", "t", "p",
      ":", "/", "/", "r", "2", "'">>

LineSpaced ==
    <<" ", " ", "u", "r", "l", ":", " ", "\"", "h", "t", "t", "p", "s", ":",
      "/", "/", "r", "3", "\"", " ", ",">>

LineOther ==
    <<" ", " ", " ", " ", "e", "n", "a", "b", "l", "e", "d", " ", " ", " ",
      " ", " ", " ", " ", " ", " ", ":", " ", "y", "e", "s", ",">>

LineNoColon ==
    <<"u", "r", "l">>

LineEmpty ==
    <<"u", "r", "l", ":", " ", "\"", "\"", ",">>

ErrTooLong ==
    <<"b", "u", "f", "i", "o", ".", "S", "c", "a", "n", "n", "e", "r", ":",
      " ", "t", "o", "k", "e", "n", " ", "t", "o", "o", " ", "l", "o", "n",
      "g">>

ErrPipe ==
    <<"p", "i", "p", "e", ":", " ", "t", "o", "o", " ", "m", "a", "n", "y",
      " ", "o", "p", "e", "n", " ", "f", "i", "l", "e", "s">>

\* the three bytes of the UTF-8 check mark, then "] "
MarkPass == <<"[", "xE2", "x9C", "x93", "]", " ">>

\* path of the i-th file matching repo-*.sqlite* (names sort by i)
CachePath(i) == CachePrefix \o <<Digits[i + 1]>> \o CacheSuffix

\* the i-th repository URL of the configuration
RepoURL(i) == URLPrefix \o <<Digits[i + 1]>>

Backup == LocalDB \o BackupSuffix

\* error values: nil is the empty text, every error has a text
NoErr == <<>>

(***************************************************************************)
(* tail(s, max): the last max bytes of s, or s when it is not longer.      *)
(***************************************************************************)
tail(s, max) ==
    IF Len(s) <= max THEN s ELSE SubSeq(s, Len(s) - max + 1, Len(s))

(***************************************************************************)
(* The environment a run meets, as bounded input sets.  A profile gives    *)
(* the commands whose output may be long (long), the failures of the       *)
(* external pkg command (errs) and the outcomes of a repository probe      *)
(* (probes).                                                               *)
(***************************************************************************)
\* one output line of n bytes c, as runCmdCapture accumulates it
OutLine(c, n) == Rep(c, n) \o NL

\* the command lines the program runs
ArgvABI       == "pkg config ABI"
ArgvVV        == "pkg -vv"
ArgvUpdate    == "pkg update -f"
ArgvBootstrap == "pkg bootstrap -f"
ArgvCheckDA   == "pkg check -da"
ArgvRecompute == "pkg check -r -a"

\* the output lengths a profile lets a command produce
Lens(P, argv) == IF argv \in P.long THEN {ShortLen, LongLen} ELSE {ShortLen}

\* runCmdCapture's results (captured text, error) for a command whose
\* output bytes are c: clean exit, a failure with the text captured so far
\* (nonzero exit, kill at the deadline), and a failed spawn with no text
Results(P, argv, c) ==
    {[out |-> OutLine(c, n), err |-> NoErr] : n \in Lens(P, argv)}
      \cup {[out |-> OutLine(c, n), err |-> e] :
               n \in Lens(P, argv), e \in P.errs \ {ErrSpawn}}
      \cup {[out |-> <<>>, err |-> e] : e \in P.errs \cap {ErrSpawn}}

\* placeholder for the result of a command that is not run
NotRun == [out |-> <<>>, err |-> NoErr]

EUIDs == {RootUID, 1001}
ReportPaths == {"", "report.json"}
Configs == [DryRun : BOOLEAN, JSONReport : ReportPaths]
StatusCodes == {HTTPOkLow, 404}

\* outcome of probing one URL: url.Parse fails, the TCP connect fails, the
\* GET fails, or the GET answers with a status code
ProbeOutcomes ==
    {[kind |-> "parse", code |-> 0], [kind |-> "tcp", code |-> 0],
     [kind |-> "get", code |-> 0]}
      \cup {[kind |-> "status", code |-> c] : c \in StatusCodes}

\* the outcomes of a probe at the edges of the range of status codes that
\* count as reachable
EdgeOutcomes ==
    {[kind |-> "parse", code |-> 0], [kind |-> "tcp", code |-> 0],
     [kind |-> "get", code |-> 0]}
      \cup {[kind |-> "status", code |-> c] :
               c \in {HTTPOkLow - 1, HTTPOkLow, HTTPOkHigh - 1, HTTPOkHigh}}

VARIABLES
    cfg,        \* Config: DryRun, JSONReport
    euid,       \* os.Geteuid()
    fs,         \* /var/db/pkg: cache files present, local.sqlite, local.sqlite.bak
    spin,       \* m.spin: the spinner's frame
    events,     \* m.events
    stOrder,    \* m.stOrder
    stMap,      \* m.stMap
    idx,        \* m.idx
    done,       \* m.done
    err,        \* m.err (NoErr is nil)
    inflight,   \* runStage commands running: [pos, st]
    msgs,       \* messages produced by commands and not yet given to Update
    started,    \* history: list positions whose handler was requested, in order
    cmdLog,     \* history: external commands run: [pos, argv, failed]
    fsLog,      \* history: filesystem operations attempted: [pos, op, path, ok]
    netLog,     \* history: parses and probes of the network check: [vv, abi, urls, calls]
    reports,    \* history: serialisations by writeJSONReport: [json, ok]
    phase,      \* "new", "running" or "exited"
    exitCode,   \* the process's exit status once exited
    now,        \* clock read by time.Now()
    exec        \* one call of runCmdCapture and the process it runs, step by step

modelVars == <<spin, events, stOrder, stMap, idx, done, err>>
\* what no step of the sequencer or of a handler changes
envVars == <<cfg, euid, exec>>
histVars == <<started, cmdLog, fsLog, netLog, reports>>
vars == <<cfg, euid, fs, spin, events, stOrder, stMap, idx, done, err, inflight,
          msgs, started, cmdLog, fsLog, netLog, reports, phase, exitCode, now,
          exec>>

NoEvent == [Time |-> 0, Stage |-> "", Status |-> "", Message |-> "", Detail |-> <<>>]
TickMsg == [type |-> "TickMsg", ev |-> NoEvent]
nextStageMsg == [type |-> "nextStageMsg", ev |-> NoEvent]
QuitMsg == [type |-> "QuitMsg", ev |-> NoEvent]
eventMsg(ev) == [type |-> "eventMsg", ev |-> ev]

(***************************************************************************)
(* initialModel(cfg): the fixed stage list, no event, index 0.             *)
(***************************************************************************)
order ==
    <<StageRepoNet, StageDetectEnv, StageClearCache, StagePkgUpdate,
      StagePkgCheckDA, StagePkgRecompute, StagePkgCheckDA, StageMoveLocalDB>>

initialModel(c) ==
    /\ cfg = c
    /\ spin = 0
    /\ events = <<>>
    /\ stOrder = order
    /\ stMap = <<>>
    /\ idx = 0
    /\ done = FALSE
    /\ err = NoErr

\* a call of runCmdCapture that has not begun, of a process that will write
\* the lines of script and then exit with status code
NewCall(script, code) ==
    [pc |-> "start", script |-> script, code |-> code, state |-> "none",
     spawned |-> 0, reaped |-> FALSE, stdout |-> <<>>, stderr |-> <<>>,
     src |-> "stdout", b |-> <<>>, produced |-> <<>>,
     ret |-> [out |-> <<>>, err |-> NoErr]]

InitProg(cs, uids, caches, dbs) ==
    /\ \E c \in cs : initialModel(c)
    /\ euid \in uids
    /\ fs \in [cache : caches, localDB : dbs, backup : {FALSE}]
    /\ inflight = {}
    /\ msgs = {}
    /\ started = <<>>
    /\ cmdLog = <<>>
    /\ fsLog = <<>>
    /\ netLog = <<>>
    /\ reports = <<>>
    /\ phase = "new"
    /\ exitCode = -1
    /\ now = 0

\* the program with its handlers' commands taken as single steps
InitEnv(cs, uids, caches, dbs) ==
    /\ InitProg(cs, uids, caches, dbs)
    /\ exec = NewCall(<<>>, 0)
(***************************************************************************)
(* The functions of package strings the program uses, on byte sequences.   *)
(***************************************************************************)
\* the white space strings.TrimSpace removes (of the bytes the model uses)
Space == {" ", "\t", "\n", "\r"}

\* strings.TrimLeft(s, cut), strings.TrimRight(s, cut), strings.Trim(s, cut)
TrimLeft(s, cut) ==
    IF \A i \in DOMAIN s : s[i] \in cut THEN <<>>
    ELSE SubSeq(s, CHOOSE i \in DOMAIN s :
                       /\ s[i] \notin cut
                       /\ \A j \in 1..(i - 1) : s[j] \in cut, Len(s))

TrimRight(s, cut) ==
    IF \A i \in DOMAIN s : s[i] \in cut THEN <<>>
    ELSE SubSeq(s, 1, CHOOSE i \in DOMAIN s :
                          /\ s[i] \notin cut
                          /\ \A j \in (i + 1)..Len(s) : s[j] \in cut)

Trim(s, cut) == TrimRight(TrimLeft(s, cut), cut)

TrimSpace(s) == Trim(s, Space)

HasPrefix(s, p) == Len(p) <= Len(s) /\ SubSeq(s, 1, Len(p)) = p

TrimPrefix(s, p) == IF HasPrefix(s, p) THEN SubSeq(s, Len(p) + 1, Len(s)) ELSE s

\* index of the first byte c of s, 0 when there is none
Index(s, c) ==
    IF Contains(s, c)
    THEN CHOOSE i \in DOMAIN s : s[i] = c /\ \A j \in 1..(i - 1) : s[j] # c
    ELSE 0

\* strings.Split(s, sep) for a one-byte separator
RECURSIVE Split(_, _)
Split(s, c) ==
    IF Index(s, c) = 0 THEN <<s>>
    ELSE <<SubSeq(s, 1, Index(s, c) - 1)>>
           \o Split(SubSeq(s, Index(s, c) + 1, Len(s)), c)

\* strings.SplitN(s, sep, 2) for a one-byte separator
SplitN2(s, c) ==
    IF Index(s, c) = 0 THEN <<s>>
    ELSE <<SubSeq(s, 1, Index(s, c) - 1), SubSeq(s, Index(s, c) + 1, Len(s))>>

\* strings.ReplaceAll(s, old, new) for a non-empty old
RECURSIVE ReplaceAll(_, _, _)
ReplaceAll(s, old, new) ==
    IF s = <<>> THEN <<>>
    ELSE IF HasPrefix(s, old)
    THEN new \o ReplaceAll(SubSeq(s, Len(old) + 1, Len(s)), old, new)
    ELSE <<Head(s)>> \o ReplaceAll(Tail(s), old, new)

\* the elements of a sequence of sequences, in order
RECURSIVE Flatten(_)
Flatten(ss) == IF ss = <<>> THEN <<>> ELSE Head(ss) \o Flatten(Tail(ss))

(***************************************************************************)
(* parseRepoURLs(vv, abi): the URLs of the url lines of pkg -vv.           *)
(***************************************************************************)
\* the prefix rewrite and the substitution of the ABI placeholder
normalizeURL(u, abi) ==
    LET v == IF HasPrefix(u, PkgHTTP) THEN SchemeHTTP \o TrimPrefix(u, PkgHTTP)
             ELSE IF HasPrefix(u, PkgHTTPS)
             THEN SchemeHTTPS \o TrimPrefix(u, PkgHTTPS)
             ELSE u
    IN  ReplaceAll(v, ABIVar, abi)

\* the body of the loop: what one line ln appends to out
parseLine(ln, abi) ==
    LET line == TrimSpace(ln)
        parts == SplitN2(line, ":")
        u == normalizeURL(
                 TrimSpace(Trim(TrimRight(TrimSpace(parts[2]), {","}),
                                {"\"", "'"})), abi)
    IN  IF ~HasPrefix(line, URLToken) THEN <<>>
        ELSE IF Len(parts) # 2 THEN <<>>
        ELSE IF u # <<>> THEN <<u>>
        ELSE <<>>

parseRepoURLs(vv, abi) ==
    Flatten([i \in DOMAIN Split(vv, "\n") |-> parseLine(Split(vv, "\n")[i], abi)])

\* pkg -vv output naming the first n repositories, as runCmdCapture
\* accumulates it (every line ends with a newline)
ConfText(n) ==
    ConfHead \o NL
      \o Flatten([i \in 1..n |-> ConfKey \o RepoURL(i) \o ConfEnd \o NL])

(***************************************************************************)
(* Stage handlers: runStage(cfg, st) returns a command; running it reads   *)
(* the clock, performs the stage and yields one eventMsg.                  *)
(***************************************************************************)
newEvent(st) ==
    [Time |-> now, Stage |-> st, Status |-> "", Message |-> "", Detail |-> <<>>]

Cmd(argv, r) == [argv |-> argv, failed |-> r.err # NoErr]
FsOp(op, path, ok) == [op |-> op, path |-> path, ok |-> ok]

\* what a handler hands back: its event, the commands it ran, the
\* filesystem operations it attempted, the filesystem it leaves, and the
\* parse and the probes it made (none, but for the network check)
Outcome(ev, cmds, ops, fs2) ==
    [ev |-> ev, cmds |-> cmds, ops |-> ops, fs |-> fs2, net |-> <<>>]

\* the running handler h returns: its message is queued for Update
Return(h, o) ==
    /\ inflight' = inflight \ {h}
    /\ msgs' = msgs \cup {eventMsg(o.ev)}
    /\ cmdLog' = cmdLog \o [i \in DOMAIN o.cmds |->
                              [pos |-> h.pos, argv |-> o.cmds[i].argv,
                               failed |-> o.cmds[i].failed]]
    /\ fsLog' = fsLog \o [i \in DOMAIN o.ops |->
                            [pos |-> h.pos, op |-> o.ops[i].op,
                             path |-> o.ops[i].path, ok |-> o.ops[i].ok]]
    /\ netLog' = netLog \o o.net
    /\ fs' = o.fs
    /\ now' = now + 1
    /\ UNCHANGED <<modelVars, envVars, started, reports, phase, exitCode>>

(***************************************************************************)
(* probeRepo(raw): (alive, info) for one outcome p of the probe, and the   *)
(* network operations the call made: the TCP connect (dial) and the GET    *)
(* of <raw>/meta.conf, each "ok", "fail" or "none" when not attempted.     *)
(***************************************************************************)
Call(raw, dial, get, code) == [url |-> raw, dial |-> dial, get |-> get, code |-> code]

probeRepo(raw, p) ==
    IF p.kind = "parse"
    THEN [alive |-> FALSE, info |-> raw \o InfoParse \o ErrNet \o <<")">>,
          call |-> Call(raw, "none", "none", 0)]
    ELSE IF p.kind = "tcp"
    THEN [alive |-> FALSE, info |-> raw \o InfoTCP \o ErrNet \o <<")">>,
          call |-> Call(raw, "fail", "none", 0)]
    ELSE IF p.kind = "get"
    THEN [alive |-> FALSE, info |-> raw \o InfoGET \o ErrNet \o <<")">>,
          call |-> Call(raw, "ok", "fail", 0)]
    ELSE IF p.code >= HTTPOkLow /\ p.code < HTTPOkHigh
    THEN [alive |-> TRUE, info |-> raw \o InfoOK,
          call |-> Call(raw, "ok", "ok", p.code)]
    ELSE [alive |-> FALSE, info |-> raw \o InfoStatus \o FormatInt(p.code) \o <<")">>,
          call |-> Call(raw, "ok", "ok", p.code)]

\* the outcome line of one URL
probeLine(raw, p) ==
    IF probeRepo(raw, p).alive
    THEN MarkPass \o probeRepo(raw, p).info
    ELSE MarkFail \o probeRepo(raw, p).info

\* what the check parsed and probed: the texts given to parseRepoURLs, the
\* URLs it returned, and the calls of probeRepo
Parsed(vv, abi, urls, calls) ==
    <<[vv |-> vv, abi |-> abi, urls |-> urls, calls |-> calls]>>

\* mutant: one reachable repository is enough, and the probing stops there
checkRepoNetworkAny(abi, vv, probes) ==
    LET cmds == <<Cmd(ArgvABI, abi), Cmd(ArgvVV, vv)>>
        urls == parseRepoURLs(vv.out, TrimSpace(abi.out))
        alive(i) == probeRepo(urls[i], probes[i]).alive
        upto == IF \E i \in DOMAIN urls : alive(i)
                THEN CHOOSE i \in DOMAIN urls :
                         alive(i) /\ \A j \in 1..(i - 1) : ~alive(j)
                ELSE Len(urls)
        lines == [i \in 1..upto |-> probeLine(urls[i], probes[i])]
        calls == [i \in 1..upto |-> probeRepo(urls[i], probes[i]).call]
        net == Parsed(vv.out, TrimSpace(abi.out), urls, calls)
    IN  IF vv.err # NoErr
        THEN [msg |-> "Could not run pkg -vv", detail |-> vv.err, ok |-> FALSE,
              cmds |-> cmds, net |-> <<>>]
        ELSE IF Len(urls) = 0
        THEN [msg |-> "Could not detect repository URLs", detail |-> DetailNoURLs,
              ok |-> FALSE, cmds |-> cmds, net |-> net]
        ELSE IF \E i \in DOMAIN urls : alive(i)
        THEN [msg |-> "Repository network reachable", detail |-> Join(lines, NL),
              ok |-> TRUE, cmds |-> cmds, net |-> net]
        ELSE [msg |-> "Some repositories are unreachable",
              detail |-> Join(lines, NL), ok |-> FALSE, cmds |-> cmds, net |-> net]

(***************************************************************************)
(* checkRepoNetwork: abi and vv are the results of pkg config ABI and      *)
(* pkg -vv, probes[i] the outcome the probe of the i-th parsed URL meets.  *)
(* Returns (message, detail, ok), the commands run, and the parse and the  *)
(* probes made.                                                            *)
(***************************************************************************)
checkRepoNetwork(abi, vv, probes) ==
    LET cmds == <<Cmd(ArgvABI, abi), Cmd(ArgvVV, vv)>>
        urls == parseRepoURLs(vv.out, TrimSpace(abi.out))
        lines == [i \in DOMAIN urls |-> probeLine(urls[i], probes[i])]
        calls == [i \in DOMAIN urls |-> probeRepo(urls[i], probes[i]).call]
        okAll == \A i \in DOMAIN urls : probeRepo(urls[i], probes[i]).alive
        net == Parsed(vv.out, TrimSpace(abi.out), urls, calls)
    IN  IF vv.err # NoErr
        THEN [msg |-> "Could not run pkg -vv", detail |-> vv.err, ok |-> FALSE,
              cmds |-> cmds, net |-> <<>>]
        ELSE IF Len(urls) = 0
        THEN [msg |-> "Could not detect repository URLs", detail |-> DetailNoURLs,
              ok |-> FALSE, cmds |-> cmds, net |-> net]
        ELSE IF okAll
        THEN [msg |-> "Repository network reachable", detail |-> Join(lines, NL),
              ok |-> TRUE, cmds |-> cmds, net |-> net]
        ELSE [msg |-> "Some repositories are unreachable",
              detail |-> Join(lines, NL), ok |-> FALSE, cmds |-> cmds, net |-> net]

\* case StageRepoNet
stageRepoNet(ev, abi, vv, probes) ==
    LET r == checkRepoNetwork(abi, vv, probes)
    IN  [Outcome([ev EXCEPT !.Status = IF r.ok THEN StatusOK ELSE StatusWarn,
                            !.Message = r.msg, !.Detail = r.detail],
                 r.cmds, <<>>, fs) EXCEPT !.net = r.net]

\* case StageDetectEnv
stageDetectEnv(ev, uid) ==
    IF uid # RootUID
    THEN Outcome([ev EXCEPT !.Status = StatusError, !.Message = "Must run as root"],
                 <<>>, <<>>, fs)
    ELSE Outcome([ev EXCEPT !.Status = StatusOK, !.Message = "Running as root"],
                 <<>>, <<>>, fs)

\* the set S of naturals as an increasing sequence
RECURSIVE Sorted(_)
Sorted(S) ==
    IF S = {} THEN <<>>
    ELSE LET m == CHOOSE x \in S : \A y \in S : x <= y
         IN  <<m>> \o Sorted(S \ {m})

\* globRepoSqlite: the matching paths in lexical order.  filepath.Glob
\* returns an error only for a malformed pattern, and the pattern is a
\* well-formed literal, so the error is always nil.
globRepoSqlite(f) ==
    [paths |-> [i \in 1..Cardinality(f.cache) |-> CachePath(Sorted(f.cache)[i])],
     err |-> NoErr]

\* case StageClearCache; removed are the files os.Remove succeeds on
stageClearCache(ev, removed) ==
    LET g == globRepoSqlite(fs)
        ids == Sorted(fs.cache)
    IN  IF g.err # NoErr
        THEN Outcome([ev EXCEPT !.Status = StatusWarn,
                                !.Message = "Could not scan /var/db/pkg",
                                !.Detail = g.err], <<>>, <<>>, fs)
        ELSE IF Len(g.paths) = 0
        THEN Outcome([ev EXCEPT !.Status = StatusOK,
                                !.Message = "Repo cache already clean",
                                !.Detail = DetailChecked], <<>>, <<>>, fs)
        ELSE Outcome([ev EXCEPT !.Status = StatusOK,
                                !.Message = "Removed cached repo catalogs",
                                !.Detail = Join(g.paths, NL)],
                     <<>>,
                     [i \in DOMAIN ids |-> FsOp("remove", g.paths[i], ids[i] \in removed)],
                     [fs EXCEPT !.cache = fs.cache \ removed])

\* mutant: a failed command is fatal
runAndReportFatal(ev, argv, okMsg, warnMsg, tryBootstrap, r, rb, r2) ==
    IF r.err # NoErr
    THEN Outcome([ev EXCEPT !.Status = StatusError, !.Message = warnMsg,
                            !.Detail = tail(r.out \o NL \o r.err, TailWarn)],
                 <<Cmd(argv, r)>>, <<>>, fs)
    ELSE Outcome([ev EXCEPT !.Status = StatusOK, !.Message = okMsg,
                            !.Detail = tail(r.out, TailOK)],
                 <<Cmd(argv, r)>>, <<>>, fs)

(***************************************************************************)
(* runAndReport: r is the command's result, rb and r2 the results of the   *)
(* bootstrap and of the retry, which are run only when r failed and        *)
(* tryBootstrap is set.                                                    *)
(***************************************************************************)
runAndReport(ev, argv, okMsg, warnMsg, tryBootstrap, r, rb, r2) ==
    IF r.err # NoErr /\ tryBootstrap
    THEN Outcome([ev EXCEPT !.Status = StatusWarn, !.Message = warnMsg,
                            !.Detail = tail(r.out \o NL \o r2.out, TailWarn)],
                 <<Cmd(argv, r), Cmd(ArgvBootstrap, rb), Cmd(argv, r2)>>,
                 <<>>, fs)
    ELSE IF r.err # NoErr
    THEN Outcome([ev EXCEPT !.Status = StatusWarn, !.Message = warnMsg,
                            !.Detail = tail(r.out \o NL \o r.err, TailWarn)],
                 <<Cmd(argv, r)>>, <<>>, fs)
    ELSE Outcome([ev EXCEPT !.Status = StatusOK, !.Message = okMsg,
                            !.Detail = tail(r.out, TailOK)],
                 <<Cmd(argv, r)>>, <<>>, fs)

\* case StagePkgUpdate
stagePkgUpdate(ev, r, rb, r2) ==
    runAndReport(ev, ArgvUpdate, "pkg update completed",
                 "pkg update had problems. Tried bootstrap and retry", TRUE, r, rb, r2)

\* mutant: verify retries like the forced update
stagePkgCheckDARetry(ev, r, rb, r2) ==
    runAndReport(ev, ArgvCheckDA, "Local package database looks consistent",
                 "Integrity issues detected", TRUE, r, rb, r2)

\* case StagePkgCheckDA
stagePkgCheckDA(ev, r, rb, r2) ==
    runAndReport(ev, ArgvCheckDA, "Local package database looks consistent",
                 "Integrity issues detected", FALSE, r, rb, r2)

\* case StagePkgRecompute
stagePkgRecompute(ev, r, rb, r2) ==
    runAndReport(ev, ArgvRecompute, "Recomputed package metadata",
                 "Recompute reported problems", FALSE, r, rb, r2)

\* mutant: the follow-up commands are run whether or not the file was there
stageMoveLocalDBAlways(ev, renamed, r1, r2) ==
    IF fs.localDB /\ ~renamed
    THEN Outcome([ev EXCEPT !.Status = StatusWarn,
                            !.Message = "Could not move local.sqlite",
                            !.Detail = ErrRename],
                 <<>>, <<FsOp("rename", LocalDB, FALSE)>>, fs)
    ELSE IF fs.localDB
    THEN Outcome([ev EXCEPT !.Status = StatusOK,
                            !.Message = "Moved local.sqlite aside",
                            !.Detail = LocalDB \o Arrow \o Backup],
                 <<Cmd(ArgvUpdate, r1), Cmd(ArgvCheckDA, r2)>>,
                 <<FsOp("rename", LocalDB, TRUE)>>,
                 [fs EXCEPT !.localDB = FALSE, !.backup = TRUE])
    ELSE Outcome([ev EXCEPT !.Status = StatusOK, !.Message = "No local.sqlite found",
                            !.Detail = DetailCleanState],
                 <<Cmd(ArgvUpdate, r1), Cmd(ArgvCheckDA, r2)>>, <<>>, fs)

\* mutant: a failed follow-up command turns the Event into a warning
stageMoveLocalDBStrict(ev, renamed, r1, r2) ==
    IF fs.localDB /\ ~renamed
    THEN Outcome([ev EXCEPT !.Status = StatusWarn,
                            !.Message = "Could not move local.sqlite",
                            !.Detail = ErrRename],
                 <<>>, <<FsOp("rename", LocalDB, FALSE)>>, fs)
    ELSE IF fs.localDB
    THEN Outcome([ev EXCEPT !.Status = IF r1.err # NoErr \/ r2.err # NoErr
                                       THEN StatusWarn ELSE StatusOK,
                            !.Message = "Moved local.sqlite aside",
                            !.Detail = LocalDB \o Arrow \o Backup],
                 <<Cmd(ArgvUpdate, r1), Cmd(ArgvCheckDA, r2)>>,
                 <<FsOp("rename", LocalDB, TRUE)>>,
                 [fs EXCEPT !.localDB = FALSE, !.backup = TRUE])
    ELSE Outcome([ev EXCEPT !.Status = StatusOK, !.Message = "No local.sqlite found",
                            !.Detail = DetailCleanState], <<>>, <<>>, fs)

\* case StageMoveLocalDB; os.Stat succeeds when local.sqlite is there,
\* renamed is whether os.Rename succeeds, r1 and r2 are the results of the
\* two follow-up commands
stageMoveLocalDB(ev, renamed, r1, r2) ==
    IF fs.localDB
    THEN IF ~renamed
         THEN Outcome([ev EXCEPT !.Status = StatusWarn,
                                 !.Message = "Could not move local.sqlite",
                                 !.Detail = ErrRename],
                      <<>>, <<FsOp("rename", LocalDB, FALSE)>>, fs)
         ELSE Outcome([ev EXCEPT !.Status = StatusOK,
                                 !.Message = "Moved local.sqlite aside",
                                 !.Detail = LocalDB \o Arrow \o Backup],
                      <<Cmd(ArgvUpdate, r1), Cmd(ArgvCheckDA, r2)>>,
                      <<FsOp("rename", LocalDB, TRUE)>>,
                      [fs EXCEPT !.localDB = FALSE, !.backup = TRUE])
    ELSE Outcome([ev EXCEPT !.Status = StatusOK, !.Message = "No local.sqlite found",
                            !.Detail = DetailCleanState], <<>>, <<>>, fs)

(***************************************************************************)
(* runStage: one action per case of the switch.  P is the profile the      *)
(* inputs are drawn from.  The default case (StatusSkip, "No-op") is not   *)
(* an action: every entry of the stage list has a case of its own.         *)
(***************************************************************************)
\* the results of pkg -vv: a configuration text of the profile on a clean
\* exit, else a failure
ResultsVV(P) ==
    {[out |-> t, err |-> NoErr] : t \in P.confs}
      \cup {r \in Results(P, ArgvVV, "v") : r.err # NoErr}

\* the number of probes the check makes
probeCount(abi, vv) ==
    IF vv.err # NoErr THEN 0 ELSE Len(parseRepoURLs(vv.out, TrimSpace(abi.out)))

RunRepoNet(P) ==
    \E h \in inflight :
        /\ h.st = StageRepoNet
        /\ \E abi \in Results(P, ArgvABI, "a"), vv \in ResultsVV(P) :
             \E probes \in [1..probeCount(abi, vv) -> P.probes] :
                 Return(h, stageRepoNet(newEvent(h.st), abi, vv, probes))

RunDetectEnv ==
    \E h \in inflight :
        /\ h.st = StageDetectEnv
        /\ Return(h, stageDetectEnv(newEvent(h.st), euid))

RunClearCache ==
    \E h \in inflight :
        /\ h.st = StageClearCache
        /\ \E removed \in SUBSET fs.cache :
             Return(h, stageClearCache(newEvent(h.st), removed))

\* the bootstrap and the retry have a result only when they are run
RunPkgUpdate(P) ==
    \E h \in inflight :
        /\ h.st = StagePkgUpdate
        /\ \E r \in Results(P, ArgvUpdate, "a") :
             IF r.err = NoErr
             THEN Return(h, stagePkgUpdate(newEvent(h.st), r, NotRun, NotRun))
             ELSE \E rb \in Results(P, ArgvBootstrap, "i"),
                     r2 \in Results(P, ArgvUpdate, "b") :
                      Return(h, stagePkgUpdate(newEvent(h.st), r, rb, r2))

RunPkgCheckDA(P) ==
    \E h \in inflight :
        /\ h.st = StagePkgCheckDA
        /\ \E r \in Results(P, ArgvCheckDA, "a") :
             Return(h, stagePkgCheckDA(newEvent(h.st), r, NotRun, NotRun))

RunPkgRecompute(P) ==
    \E h \in inflight :
        /\ h.st = StagePkgRecompute
        /\ \E r \in Results(P, ArgvRecompute, "a") :
             Return(h, stagePkgRecompute(newEvent(h.st), r, NotRun, NotRun))

\* the rename and the follow-up commands have a result only when they are run
RunMoveLocalDB(P) ==
    \E h \in inflight :
        /\ h.st = StageMoveLocalDB
        /\ IF fs.localDB
           THEN \/ Return(h, stageMoveLocalDB(newEvent(h.st), FALSE, NotRun, NotRun))
                \/ \E r1 \in Results(P, ArgvUpdate, "i"),
                      r2 \in Results(P, ArgvCheckDA, "i") :
                       Return(h, stageMoveLocalDB(newEvent(h.st), TRUE, r1, r2))
           ELSE Return(h, stageMoveLocalDB(newEvent(h.st), FALSE, NotRun, NotRun))

(***************************************************************************)
(* The report.  json.Encoder writes one object per Event; Detail has the   *)
(* omitempty tag.                                                          *)
(***************************************************************************)
encodeEvent(ev) ==
    IF ev.Detail = <<>>
    THEN [time |-> ev.Time, stage |-> ev.Stage, status |-> ev.Status,
          message |-> ev.Message]
    ELSE [time |-> ev.Time, stage |-> ev.Stage, status |-> ev.Status,
          message |-> ev.Message, detail |-> ev.Detail]

\* mutant: omitempty applied to the whole Event
encodeNonEmpty(evs) ==
    LET kept == SelectSeq(evs, LAMBDA e : e.Detail # <<>>)
    IN  [i \in DOMAIN kept |-> encodeEvent(kept[i])]

encode(evs) == [i \in DOMAIN evs |-> encodeEvent(evs[i])]

\* writeJSONReport(path, events): the serialisations it may add to the
\* history; os.Create or Encode may fail (ok = FALSE)
writeJSONReport(path, evs) ==
    IF path = "" THEN {<<>>}
    ELSE {<<[json |-> encode(evs), ok |-> b]>> : b \in BOOLEAN}

(***************************************************************************)
(* model.Init and model.Update.                                            *)
(***************************************************************************)
\* the command runStage(cfg, stOrder[i]) starts to run
request(i) == [pos |-> i, st |-> stOrder[i + 1]]

\* mutant: the index steps over a stage
nextIdxSkip(i) == i + 2

\* m.idx++
nextIdx(i) == i + 1

\* mutant: the Event is put in front
recordFirst(evs, ev) == <<ev>> \o evs

\* m.events = append(m.events, ev)
record(evs, ev) == Append(evs, ev)

\* m.stMap[ev.Stage] = ev
put(m, ev) ==
    [s \in (DOMAIN m) \cup {ev.Stage} |-> IF s = ev.Stage THEN ev ELSE m[s]]

\* model.Init: tea.Batch(spinner.Tick, runStage(m.cfg, m.stOrder[0]))
ProgramInit ==
    /\ phase = "new"
    /\ phase' = "running"
    /\ msgs' = {TickMsg}
    /\ inflight' = {request(0)}
    /\ started' = <<0>>
    /\ UNCHANGED <<modelVars, envVars, fs, cmdLog, fsLog, netLog, reports, exitCode,
                   now>>

\* case spinner.TickMsg: the spinner advances and asks for its next tick
UpdateTickMsg ==
    /\ phase = "running"
    /\ TickMsg \in msgs
    /\ spin' = (spin + 1) % SpinFrames
    /\ UNCHANGED <<events, stOrder, stMap, idx, done, err, envVars, fs, inflight,
                   msgs, histVars, phase, exitCode, now>>

\* mutant: the Event is recorded and no nextStageMsg follows
UpdateEventMsgStall ==
    /\ phase = "running"
    /\ \E m \in msgs :
         /\ m.type = "eventMsg"
         /\ events' = record(events, m.ev)
         /\ stMap' = put(stMap, m.ev)
         /\ msgs' = msgs \ {m}
    /\ UNCHANGED <<spin, stOrder, idx, done, err, envVars, fs, inflight, histVars,
                   phase, exitCode, now>>

\* case eventMsg
UpdateEventMsg ==
    /\ phase = "running"
    /\ \E m \in msgs :
         /\ m.type = "eventMsg"
         /\ events' = record(events, m.ev)
         /\ stMap' = put(stMap, m.ev)
         /\ msgs' = (msgs \ {m}) \cup {nextStageMsg}
    /\ UNCHANGED <<spin, stOrder, idx, done, err, envVars, fs, inflight, histVars,
                   phase, exitCode, now>>

\* case nextStageMsg
UpdateNextStageMsg ==
    /\ phase = "running"
    /\ nextStageMsg \in msgs
    /\ idx' = nextIdx(idx)
    /\ IF idx' >= Len(stOrder)
       THEN /\ done' = TRUE
            /\ \E w \in writeJSONReport(cfg.JSONReport, events) :
                 reports' = reports \o w
            /\ msgs' = (msgs \ {nextStageMsg}) \cup {QuitMsg}
            /\ UNCHANGED <<inflight, started>>
       ELSE /\ inflight' = inflight \cup {request(idx')}
            /\ started' = Append(started, idx')
            /\ msgs' = msgs \ {nextStageMsg}
            /\ UNCHANGED <<done, reports>>
    /\ UNCHANGED <<spin, events, stOrder, stMap, err, envVars, fs, cmdLog, fsLog,
                   netLog, phase, exitCode, now>>

\* case errMsg.  No command of the program yields an errMsg, so the case is
\* never taken and is no disjunct of Next; e is the error carried.
UpdateErrMsg(e) ==
    /\ phase = "running"
    /\ err' = e
    /\ done' = TRUE
    /\ \E w \in writeJSONReport(cfg.JSONReport, events) : reports' = reports \o w
    /\ msgs' = msgs \cup {QuitMsg}
    /\ UNCHANGED <<spin, events, stOrder, stMap, idx, envVars, fs, inflight,
                   started, cmdLog, fsLog, netLog, phase, exitCode, now>>

\* model.View: the summary line under the stage list (the success line without
\* its trailing hint to run pkg -vv)
viewSummary ==
    IF done
    THEN IF err # NoErr THEN "Finished with errors."
         ELSE "Completed successfully."
    ELSE ""

\* model.View: the line of the i-th entry of the stage list: the spinner
\* while stMap has no Event for the entry's stage, else that Event's status
\* (icon and colour), message and detail
viewStage(i) ==
    IF stOrder[i] \notin DOMAIN stMap
    THEN [pending |-> TRUE, status |-> "", message |-> "", detail |-> <<>>]
    ELSE [pending |-> FALSE, status |-> stMap[stOrder[i]].Status,
          message |-> stMap[stOrder[i]].Message,
          detail |-> stMap[stOrder[i]].Detail]

(***************************************************************************)
(* main: p.Run() returns the final model when tea.Quit is processed, or    *)
(* an error when the program cannot start.                                 *)
(***************************************************************************)
exitStatus(e) == IF e # NoErr THEN 1 ELSE 0

Quit ==
    /\ phase = "running"
    /\ QuitMsg \in msgs
    /\ phase' = "exited"
    /\ exitCode' = exitStatus(err)
    /\ UNCHANGED <<modelVars, envVars, fs, inflight, msgs, histVars, now>>

RunFails ==
    /\ phase = "new"
    /\ phase' = "exited"
    /\ exitCode' = 1
    /\ UNCHANGED <<modelVars, envVars, fs, inflight, msgs, histVars, now>>

(***************************************************************************)
(* Specifications.                                                         *)
(***************************************************************************)
\* input profiles of the specifications
\* the pkg -vv outputs naming up to n repositories
Confs(n) == {ConfText(k) : k \in 0..n}

Small ==
    [long |-> {}, errs |-> {ErrExit}, probes |-> ProbeOutcomes,
     confs |-> Confs(MaxURLs)]
Quiet ==
    [long |-> {}, errs |-> {ErrExit},
     probes |-> {p \in ProbeOutcomes : p.kind = "status" /\ p.code = HTTPOkLow},
     confs |-> Confs(MaxURLs)]
Faulty ==
    [long |-> {}, errs |-> {ErrExit, ErrSpawn},
     probes |-> {p \in ProbeOutcomes : p.kind = "tcp" \/ p.code = HTTPOkLow},
     confs |-> Confs(MaxURLs)]
Rich ==
    [long |-> {ArgvUpdate}, errs |-> {ErrExit, ErrKilled},
     probes |-> {p \in ProbeOutcomes : p.kind = "tcp" \/ p.code = HTTPOkLow},
     confs |-> Confs(MaxURLs)]
\* every outcome of every probe of up to MaxNetURLs repositories, by
\* commands that all succeed
Net ==
    [long |-> {}, errs |-> {}, probes |-> EdgeOutcomes,
     confs |-> Confs(MaxNetURLs)]

\* lines of pkg -vv output: a url line with the pkg+https prefix and the ABI
\* placeholder, one in single quotes, one with a blank before its comma, a
\* line of another key, a url line without a colon, one with an empty value
LineSamples == {LineRewrite, LinePlain, LineSpaced, LineOther, LineNoColon, LineEmpty}

\* the texts of up to n such lines, each line ended by a newline
RECURSIVE Texts(_)
Texts(n) ==
    IF n = 0 THEN {<<>>}
    ELSE Texts(n - 1) \cup {t \o l \o NL : t \in Texts(n - 1), l \in LineSamples}

\* any such text as the output of pkg -vv, by commands that all succeed and
\* repositories that all answer
Parse ==
    [long |-> {}, errs |-> {},
     probes |-> {p \in ProbeOutcomes : p.kind = "status" /\ p.code = HTTPOkLow},
     confs |-> Texts(MaxLines)]

\* many repositories, each unreachable or answering, by commands that all
\* succeed
Long ==
    [long |-> {}, errs |-> {},
     probes |-> {p \in ProbeOutcomes : p.kind = "tcp" \/ p.code = HTTPOkLow},
     confs |-> {ConfText(ManyURLs)}]

DefaultConfig == [DryRun |-> FALSE, JSONReport |-> ""]

Step(P) ==
    \/ ProgramInit
    \/ RunFails
    \/ UpdateTickMsg
    \/ UpdateEventMsg
    \/ UpdateNextStageMsg
    \/ RunRepoNet(P)
    \/ RunDetectEnv
    \/ RunClearCache
    \/ RunPkgUpdate(P)
    \/ RunPkgCheckDA(P)
    \/ RunPkgRecompute(P)
    \/ RunMoveLocalDB(P)
    \/ Quit

\* the sequencer: every configuration and both privileges, on a clean
\* database directory
Init == InitEnv(Configs, EUIDs, {{}}, {FALSE})
Next == Step(Small)
Spec == Init /\ [][Next]_vars

\* the filesystem: every state of the database directory, with and
\* without --dry-run
InitFS ==
    InitEnv({c \in Configs : c.JSONReport = ""}, EUIDs, SUBSET (1..MaxCacheFiles),
            BOOLEAN)
NextFS == Step(Quiet)
SpecFS == InitFS /\ [][NextFS]_vars

\* failures: commands that exit nonzero or cannot be spawned, repositories
\* that cannot be reached, a rename that fails
InitFail == InitEnv({DefaultConfig}, EUIDs, {{}}, BOOLEAN)
NextFail == Step(Faulty)
SpecFail == InitFail /\ [][NextFail]_vars

\* outputs: long and short output of the forced update, by commands that
\* exit nonzero or are killed at the deadline; every command prints a line
InitOut == InitEnv({DefaultConfig}, {RootUID}, {{}}, {FALSE})
NextOut == Step(Rich)
SpecOut == InitOut /\ [][NextOut]_vars

\* the network check: several repositories, each probe with any outcome
InitNet == InitEnv({DefaultConfig}, {RootUID}, {{}}, {FALSE})
NextNet == Step(Net)
SpecNet == InitNet /\ [][NextNet]_vars

\* the parser: pkg -vv output of well-formed and malformed lines
InitParse == InitEnv({DefaultConfig}, {RootUID}, {{}}, {FALSE})
NextParse == Step(Parse)
SpecParse == InitParse /\ [][NextParse]_vars

\* long details: a configuration of many repositories
InitLong == InitEnv({DefaultConfig}, {RootUID}, {{}}, {FALSE})
NextLong == Step(Long)
SpecLong == InitLong /\ [][NextLong]_vars

\* the run under fair scheduling: the Bubble Tea runtime runs every command
\* in a goroutine of its own and hands every message to Update, so a
\* handler that is running returns and a message that is pending is
\* delivered
InitLive == InitEnv({DefaultConfig}, EUIDs, {{}}, {FALSE})
NextLive == Step(Quiet)
Fairness ==
    /\ WF_vars(UpdateEventMsg)
    /\ WF_vars(UpdateNextStageMsg)
    /\ WF_vars(Quit)
    /\ WF_vars(RunRepoNet(Quiet))
    /\ WF_vars(RunDetectEnv)
    /\ WF_vars(RunClearCache)
    /\ WF_vars(RunPkgUpdate(Quiet))
    /\ WF_vars(RunPkgCheckDA(Quiet))
    /\ WF_vars(RunPkgRecompute(Quiet))
    /\ WF_vars(RunMoveLocalDB(Quiet))
SpecLive == InitLive /\ [][NextLive]_vars /\ Fairness

(***************************************************************************)
(* runCmdCapture, step by step.  exec is one call and the process it       *)
(* runs: the process writes the lines of its script to its standard        *)
(* output and standard error (two pipes) and exits, or is killed when the  *)
(* context's deadline passes; the call reads io.MultiReader(stdout,        *)
(* stderr) line by line with a bufio.Scanner into b, then waits.  A line   *)
(* is its descriptor, its number in the order of writing, and whether it   *)
(* is longer than the scanner's buffer (bufio.MaxScanTokenSize).  A pipe   *)
(* is at its end when it is empty and the process has gone.  The pipes     *)
(* are taken to hold whatever is written.                                  *)
(***************************************************************************)
progVars ==
    <<cfg, euid, fs, spin, events, stOrder, stMap, idx, done, err, inflight,
      msgs, started, cmdLog, fsLog, netLog, reports, phase, exitCode, now>>

Scripts(n) ==
    UNION {[1..k -> [fd : {"stdout", "stderr"}, long : BOOLEAN]] : k \in 0..n}

\* return s, err
return(s, e) ==
    exec' = [exec EXCEPT !.pc = "done", !.ret = [out |-> s, err |-> e]]

\* cmd.StdoutPipe() or cmd.StderrPipe() fails
PipeFails ==
    /\ exec.pc = "start"
    /\ return(<<>>, ErrPipe)
    /\ UNCHANGED progVars

\* cmd.Start() fails
StartFails ==
    /\ exec.pc = "start"
    /\ return(<<>>, ErrSpawn)
    /\ UNCHANGED progVars

\* cmd.Start() succeeds
Start ==
    /\ exec.pc = "start"
    /\ exec' = [exec EXCEPT !.pc = "scan", !.state = "running",
                            !.spawned = exec.spawned + 1]
    /\ UNCHANGED progVars

\* the process writes its next line
ProcWrite ==
    /\ exec.state = "running"
    /\ Len(exec.produced) < Len(exec.script)
    /\ LET k == Len(exec.produced) + 1
           ln == [fd |-> exec.script[k].fd, k |-> k, long |-> exec.script[k].long]
       IN  exec' = [exec EXCEPT
                      !.produced = Append(exec.produced, ln),
                      !.stdout = IF ln.fd = "stdout" THEN Append(@, ln) ELSE @,
                      !.stderr = IF ln.fd = "stderr" THEN Append(@, ln) ELSE @]
    /\ UNCHANGED progVars

\* the process exits with its status
ProcExit ==
    /\ exec.state = "running"
    /\ Len(exec.produced) = Len(exec.script)
    /\ exec' = [exec EXCEPT !.state = "exited"]
    /\ UNCHANGED progVars

\* the deadline of the context passes: exec.CommandContext kills the process
Deadline ==
    /\ exec.state = "running"
    /\ exec' = [exec EXCEPT !.state = "killed"]
    /\ UNCHANGED progVars

\* the pipe the MultiReader is reading
reading == IF exec.src = "stdout" THEN exec.stdout ELSE exec.stderr

\* sc.Scan() returns a line: b.WriteString(sc.Text()); b.WriteByte('\n')
ScanLine ==
    /\ exec.pc = "scan"
    /\ reading # <<>>
    /\ ~Head(reading).long
    /\ exec' = [exec EXCEPT
                  !.b = Append(exec.b, Head(reading)),
                  !.stdout = IF exec.src = "stdout" THEN Tail(@) ELSE @,
                  !.stderr = IF exec.src = "stderr" THEN Tail(@) ELSE @]
    /\ UNCHANGED progVars

\* sc.Scan() fails on a line longer than its buffer: return b.String(), err
ScanTooLong ==
    /\ exec.pc = "scan"
    /\ reading # <<>>
    /\ Head(reading).long
    /\ return(exec.b, ErrTooLong)
    /\ UNCHANGED progVars

\* the pipe read is at its end: the MultiReader goes on to stderr, or the
\* scan is over
ScanEOF ==
    /\ exec.pc = "scan"
    /\ reading = <<>>
    /\ exec.state # "running"
    /\ exec' = IF exec.src = "stdout" THEN [exec EXCEPT !.src = "stderr"]
               ELSE [exec EXCEPT !.pc = "wait"]
    /\ UNCHANGED progVars

\* the error of cmd.Wait()
waitErr(x) ==
    IF x.state = "killed" THEN ErrKilled
    ELSE IF x.code # 0 THEN ErrExit
    ELSE NoErr

\* mutant: the text is given up when the command failed
waitReturnDrop(x) ==
    IF waitErr(x) # NoErr THEN [out |-> <<>>, err |-> waitErr(x)]
    ELSE [out |-> x.b, err |-> NoErr]

\* what the call returns after cmd.Wait()
waitReturn(x) == [out |-> x.b, err |-> waitErr(x)]

\* cmd.Wait() returns once the process has gone
Wait ==
    /\ exec.pc = "wait"
    /\ exec.state # "running"
    /\ exec' = [exec EXCEPT !.pc = "done", !.reaped = TRUE,
                            !.ret = waitReturn(exec)]
    /\ UNCHANGED progVars

\* one call of runCmdCapture, of a process with any script and exit status
InitExec ==
    /\ InitProg({DefaultConfig}, {RootUID}, {{}}, {FALSE})
    /\ exec \in {NewCall(s, c) : s \in Scripts(MaxWrites), c \in {0, 1}}
NextExec ==
    \/ PipeFails
    \/ StartFails
    \/ Start
    \/ ProcWrite
    \/ ProcExit
    \/ Deadline
    \/ ScanLine
    \/ ScanTooLong
    \/ ScanEOF
    \/ Wait
SpecExec == InitExec /\ [][NextExec]_vars
(***************************************************************************)
(* Vocabulary of the properties.                                           *)
(***************************************************************************)
\* Events returned by a handler and not yet given to Update
pendingEvents == {m.ev : m \in {x \in msgs : x.type = "eventMsg"}}

\* an error-status Event has been recorded
hasError == \E i \in DOMAIN events : events[i].Status = StatusError

\* the commands run and the filesystem operations attempted by the handler
\* of list position p
cmdsAt(p) == SelectSeq(cmdLog, LAMBDA c : c.pos = p)
opsAt(p) == SelectSeq(fsLog, LAMBDA o : o.pos = p)

\* s is a prefix of t
isPrefix(s, t) == Len(s) <= Len(t) /\ \A i \in DOMAIN s : s[i] = t[i]

\* the handler of stage st returns in this step
returns(st) == (\E h \in inflight : h.st = st) /\ inflight' = {}

(***************************************************************************)
(* C1.  Once an Event with status error is recorded no further stage       *)
(* handler is requested, and the sequencer is in its Failed state (done    *)
(* with an error) once it has acted on that Event; in particular after     *)
(* "Must run as root" at list position 1 no handler of position 2..7 runs. *)
(* The code does not halt: model.Update never looks at the status.         *)
(***************************************************************************)
C1_HaltsOnError ==
    \A i \in DOMAIN events :
        events[i].Status = StatusError =>
            /\ Len(started) <= i
            /\ nextStageMsg \notin msgs => done /\ err # NoErr

(***************************************************************************)
(* C2.  The recorded Events are one per handler that has returned (the     *)
(* last one possibly still on its way to Update), at most 8, the i-th      *)
(* carrying the stage of the i-th entry of the fixed stage list; recorded  *)
(* Events are never changed or removed and the stage list never changes.   *)
(***************************************************************************)
C2_Shape ==
    /\ stOrder = order
    /\ Len(stOrder) = 8
    /\ Len(events) <= Len(stOrder)
    /\ \A i \in DOMAIN events : events[i].Stage = stOrder[i]
    /\ Len(events) + Cardinality(pendingEvents) + Cardinality(inflight) = Len(started)

C2_EventsPerStage ==
    [] C2_Shape /\ [][isPrefix(events, events') /\ stOrder' = stOrder]_vars

C2_Witness == done /\ Len(events) = 8 /\ events[7].Stage = StagePkgCheckDA

(***************************************************************************)
(* C3.  The process exits with success, and the summary reads "Completed   *)
(* successfully", only if the run completed and no recorded Event has      *)
(* status error; a run with an error Event exits with failure and the      *)
(* summary "Finished with errors.".  The code exits 0 after an error       *)
(* Event, because nothing ever sets m.err.                                 *)
(***************************************************************************)
C3_ExitReflectsErrors ==
    phase = "exited" =>
        /\ exitCode = 0 => done /\ ~hasError
        /\ hasError => exitCode # 0 /\ viewSummary = "Finished with errors."

(***************************************************************************)
(* C4.  With --dry-run no file is deleted or renamed and no                *)
(* state-mutating pkg command (forced update, bootstrap, recompute) is     *)
(* run.  The code never reads cfg.DryRun.                                  *)
(***************************************************************************)
destructive == {ArgvUpdate, ArgvBootstrap, ArgvRecompute}

C4_DryRunMutatesNothing ==
    cfg.DryRun =>
        /\ \A i \in DOMAIN fsLog : ~fsLog[i].ok
        /\ \A i \in DOMAIN cmdLog : cmdLog[i].argv \notin destructive

(***************************************************************************)
(* C5.  With a report path configured the Events are serialised exactly    *)
(* once, in the step that makes the run terminal: never before, never      *)
(* again after; the array holds every Event of the run in emission order   *)
(* (detail left out when empty); and the run is terminal and without       *)
(* error whether or not the serialisation succeeded.  Without a report     *)
(* path nothing is serialised.                                             *)
(***************************************************************************)
sameEvent(j, ev) ==
    /\ j.time = ev.Time
    /\ j.stage = ev.Stage
    /\ j.status = ev.Status
    /\ j.message = ev.Message
    /\ ("detail" \in DOMAIN j) = (ev.Detail # <<>>)
    /\ ev.Detail # <<>> => j.detail = ev.Detail

C5_ReportOnceAtEnd ==
    /\ Len(reports) <= 1
    /\ (Len(reports) = 1) = (done /\ cfg.JSONReport # "")
    /\ reports # <<>> =>
         /\ Len(reports[1].json) = Len(events)
         /\ Len(events) = Len(started)
         /\ inflight = {} /\ pendingEvents = {}
         /\ \A i \in DOMAIN events : sameEvent(reports[1].json[i], events[i])
         /\ done /\ err = NoErr

C5_Witness ==
    /\ phase = "exited"
    /\ Len(reports) = 1
    /\ ~reports[1].ok
    /\ Len(reports[1].json) = 8
    /\ \E i \in 1..8 : "detail" \notin DOMAIN reports[1].json[i]

(***************************************************************************)
(* C6.  At most one stage handler is in flight; handlers are requested in  *)
(* list order 0, 1, 2, ... starting at construction, the handler of        *)
(* position i+1 only after the Event of position i is recorded; and a      *)
(* spinner tick leaves the stage index, the Events, the terminal flags     *)
(* and the handlers requested and in flight unchanged.                     *)
(***************************************************************************)
C6_Serial ==
    /\ Cardinality(inflight) <= 1
    /\ started = [i \in 1..Len(started) |-> i - 1]
    /\ Len(started) <= Len(events) + 1
    /\ phase = "running" => started # <<>>
    /\ \A h \in inflight :
         /\ h.pos = Len(events)
         /\ h.pos = started[Len(started)]
         /\ h.st = order[h.pos + 1]
         /\ pendingEvents = {} /\ nextStageMsg \notin msgs

C6_OneStageAtATime ==
    [] C6_Serial
      /\ [][spin' # spin =>
              UNCHANGED <<idx, events, stMap, done, err, started, inflight>>]_vars

C6_Witness ==
    /\ spin # 0
    /\ \E h \in inflight : h.pos = 6 /\ h.st = StagePkgCheckDA
    /\ Len(events) = 6

(***************************************************************************)
(* C7.  Only the environment check yields an Event with status error:      *)
(* every other handler returns exactly one Event, with status ok or warn,  *)
(* whatever fails inside it.                                               *)
(***************************************************************************)
C7_OnlyEnvCheckErrors ==
    /\ \A ev \in {events[i] : i \in DOMAIN events} \cup pendingEvents :
         /\ ev.Status = StatusError => ev.Stage = StageDetectEnv
         /\ ev.Stage # StageDetectEnv => ev.Status \in {StatusOK, StatusWarn}
         /\ ev.Stage = StageDetectEnv => ev.Status \in {StatusOK, StatusError}
    /\ Cardinality(pendingEvents) <= 1
    /\ Len(events) + Cardinality(pendingEvents) + Cardinality(inflight) = Len(started)

C7_Witness ==
    /\ Len(events) = 8
    /\ events[1].Status = StatusWarn
    /\ events[2].Status = StatusError
    /\ events[5].Status = StatusWarn /\ cmdsAt(4)[1].failed
    /\ events[6].Status = StatusWarn
    /\ events[8].Status = StatusWarn /\ ~opsAt(7)[1].ok

(***************************************************************************)
(* C8.  The forced update runs its command once and returns ok when it     *)
(* succeeds; when it fails it runs one bootstrap and then one retry and    *)
(* returns warn whether or not they succeed.  Verify and recompute run     *)
(* their command exactly once, failing or not, and no list position is     *)
(* requested twice.                                                        *)
(***************************************************************************)
argvs(cs) == [i \in DOMAIN cs |-> cs[i].argv]

C8_RetryOnlyInForcedUpdate ==
    /\ \A i \in DOMAIN events :
         LET cs == cmdsAt(i - 1)
         IN  /\ events[i].Stage = StagePkgUpdate =>
                  /\ cs # <<>>
                  /\ ~cs[1].failed =>
                       argvs(cs) = <<ArgvUpdate>> /\ events[i].Status = StatusOK
                  /\ cs[1].failed =>
                       /\ argvs(cs) = <<ArgvUpdate, ArgvBootstrap, ArgvUpdate>>
                       /\ events[i].Status = StatusWarn
             /\ events[i].Stage = StagePkgCheckDA =>
                  /\ argvs(cs) = <<ArgvCheckDA>>
                  /\ cs[1].failed = (events[i].Status = StatusWarn)
             /\ events[i].Stage = StagePkgRecompute =>
                  /\ argvs(cs) = <<ArgvRecompute>>
                  /\ cs[1].failed = (events[i].Status = StatusWarn)
    /\ \A i, j \in DOMAIN started : started[i] = started[j] => i = j

C8_Witness ==
    /\ Len(events) >= 7
    /\ events[4].Status = StatusWarn
    /\ Len(cmdsAt(3)) = 3 /\ cmdsAt(3)[2].failed /\ ~cmdsAt(3)[3].failed
    /\ events[5].Status = StatusWarn /\ Len(cmdsAt(4)) = 1
    /\ events[7].Status = StatusOK

(***************************************************************************)
(* C9.  When the forced update failed and was retried, the detail of its   *)
(* Event holds output of the first attempt (bytes "a") and output of the   *)
(* retry (bytes "b"), also when an output is longer than the window.  The  *)
(* code keeps the last 300 bytes of the two outputs joined, so a long      *)
(* retry output pushes the first attempt out of the detail.                *)
(***************************************************************************)
C9_DetailHasBothAttempts ==
    \A i \in DOMAIN events :
        events[i].Stage = StagePkgUpdate /\ Len(cmdsAt(i - 1)) = 3 =>
            Contains(events[i].Detail, "a") /\ Contains(events[i].Detail, "b")

(***************************************************************************)
(* C10.  Original statement: when local.sqlite is absent the last-resort   *)
(* handler returns ok with message "no local database found" and detail    *)
(* "database already in a clean state", and leaves the filesystem and the  *)
(* commands run unchanged.                                                 *)
(***************************************************************************)
\* the detail as the original statement words it
ClaimedCleanDetail ==
    <<"d", "a", "t", "a", "b", "a", "s", "e", " ", "a", "l", "r", "e", "a",
      "d", "y", " ", "i", "n", " ", "a", " ", "c", "l", "e", "a", "n", " ",
      "s", "t", "a", "t", "e">>

absentReturn(message, detail) ==
    returns(StageMoveLocalDB) /\ ~fs.localDB =>
        /\ fs' = fs
        /\ cmdLog' = cmdLog
        /\ fsLog' = fsLog
        /\ \E m \in msgs' \ msgs :
             /\ m.type = "eventMsg"
             /\ m.ev.Stage = StageMoveLocalDB
             /\ m.ev.Status = StatusOK
             /\ m.ev.Message = message
             /\ m.ev.Detail = detail

C10_AbsentAsClaimed ==
    [][absentReturn("no local database found", ClaimedCleanDetail)]_vars

(***************************************************************************)
(* C10, amended.  When local.sqlite is absent the last-resort handler      *)
(* returns ok with message "No local.sqlite found" and detail "Package     *)
(* database is already in a clean state", attempts no rename and runs no   *)
(* command: the filesystem and the commands run are unchanged.             *)
(***************************************************************************)
C10_AbsentIsNoOp ==
    [][absentReturn("No local.sqlite found", DetailCleanState)]_vars

C10_Witness ==
    /\ done
    /\ ~fs.localDB /\ ~fs.backup
    /\ events[8].Stage = StageMoveLocalDB
    /\ events[8].Message = "No local.sqlite found"
    /\ opsAt(7) = <<>> /\ cmdsAt(7) = <<>>
    /\ cmdsAt(3) # <<>>

(***************************************************************************)
(* C11.  A run whose environment check found the process not to be root    *)
(* exits with code 126; code 1 is for other failures, and code 0 is given  *)
(* only to a completed run with no error-status Event.  main has no exit   *)
(* with 126, and a run that recorded "Must run as root" exits 0.           *)
(***************************************************************************)
notRootFound ==
    \E i \in DOMAIN events :
        /\ events[i].Stage = StageDetectEnv
        /\ events[i].Status = StatusError

C11_ExitCodes ==
    phase = "exited" =>
        /\ notRootFound => exitCode = 126
        /\ exitCode = 1 => ~notRootFound
        /\ exitCode = 0 => done /\ ~hasError

(***************************************************************************)
(* C12.  When pkg -vv has been read, the network check probes every        *)
(* parsed URL exactly once, in parse order; a URL is reachable iff its     *)
(* TCP connect succeeded and the GET of meta.conf answered with a status   *)
(* code in [200,400), and no GET is attempted after a failed connect; the  *)
(* stage is ok iff every URL is reachable; the detail has one line per     *)
(* URL, in URL order, with the pass marker iff the URL is reachable and    *)
(* the fail marker otherwise.  With no URL parsed the result is a failure  *)
(* (warn) with the message "Could not detect repository URLs" (the claim   *)
(* quotes it without the capital) and nothing is probed.                   *)
(***************************************************************************)
reachable(call) ==
    /\ call.dial = "ok"
    /\ call.get = "ok"
    /\ call.code >= 200 /\ call.code < 400

aggregated(ev, urls, calls) ==
    LET lines == Split(ev.Detail, "\n")
    IN  IF urls = <<>>
        THEN /\ calls = <<>>
             /\ ev.Status = StatusWarn
             /\ ev.Message = "Could not detect repository URLs"
        ELSE /\ Len(calls) = Len(urls)
             /\ \A k \in DOMAIN urls : calls[k].url = urls[k]
             /\ \A k \in DOMAIN calls : calls[k].dial # "ok" => calls[k].get = "none"
             /\ ev.Status \in {StatusOK, StatusWarn}
             /\ ev.Status = StatusOK <=> \A k \in DOMAIN calls : reachable(calls[k])
             /\ Len(lines) = Len(urls)
             /\ \A k \in DOMAIN urls :
                  IF reachable(calls[k])
                  THEN HasPrefix(lines[k], MarkPass \o urls[k])
                  ELSE HasPrefix(lines[k], MarkFail \o urls[k])

C12_ProbeAggregation ==
    \A i \in DOMAIN events :
        events[i].Stage = StageRepoNet /\ netLog # <<>> =>
            /\ Len(netLog) = 1
            /\ aggregated(events[i], netLog[1].urls, netLog[1].calls)

C12_Witness ==
    /\ done
    /\ events[1].Stage = StageRepoNet
    /\ events[1].Status = StatusWarn
    /\ Len(netLog) = 1
    /\ Len(netLog[1].urls) >= 3
    /\ netLog[1].calls[1].dial = "fail"
    /\ reachable(netLog[1].calls[2])
    /\ netLog[1].calls[3].code = HTTPOkHigh

C12_WitnessNone ==
    /\ done
    /\ Len(netLog) = 1
    /\ netLog[1].urls = <<>>
    /\ events[1].Message = "Could not detect repository URLs"

(***************************************************************************)
(* C13.  The parser returns, in line order, one URL for every line whose   *)
(* trimmed form starts with url and has a colon and whose value is not     *)
(* empty; the value is the text after the first colon without surrounding  *)
(* white space, trailing commas and quote characters, with a leading       *)
(* pkg+http:// or pkg+https:// rewritten and the ABI placeholder replaced  *)
(* by the ABI string; any other line contributes nothing.  The code trims  *)
(* the commas before the quotes, once: a blank between the closing quote   *)
(* and the comma leaves the quote on the URL.                              *)
(***************************************************************************)
Quotes == {"\"", "'"}

\* the value as the claim describes it
claimedValue(line, abi) ==
    LET raw == SplitN2(TrimSpace(line), ":")[2]
        bare == TrimRight(TrimLeft(raw, Space \cup Quotes),
                          Space \cup Quotes \cup {","})
    IN  normalizeURL(bare, abi)

claimedURLs(vv, abi) ==
    LET lines == Split(vv, "\n")
        declares(l) == HasPrefix(TrimSpace(l), URLToken) /\ Contains(l, ":")
    IN  Flatten([i \in DOMAIN lines |->
                   IF declares(lines[i]) /\ claimedValue(lines[i], abi) # <<>>
                   THEN <<claimedValue(lines[i], abi)>>
                   ELSE <<>>])

C13_URLExtraction ==
    \A i \in DOMAIN netLog :
        netLog[i].urls = claimedURLs(netLog[i].vv, netLog[i].abi)

(***************************************************************************)
(* Vocabulary of the properties of runCmdCapture.                          *)
(***************************************************************************)
returned == exec.pc = "done"
cleanExit == exec.spawned = 1 /\ exec.state = "exited" /\ exec.code = 0
lineSet(s) == {s[i] : i \in DOMAIN s}

\* an error comes with the text read so far, and a failure of the process
\* itself with every line the process wrote
textSurfaced ==
    /\ exec.ret.out = exec.b
    /\ exec.ret.err \in {ErrExit, ErrKilled} =>
           lineSet(exec.ret.out) = lineSet(exec.produced)

(***************************************************************************)
(* C14 as claimed.  The call returns no error iff the process was spawned  *)
(* and exited with status zero; with an error it returns the text          *)
(* captured up to the failure.  A process that exits with status zero      *)
(* after writing a line longer than the scanner's buffer makes the call    *)
(* return an error.                                                        *)
(***************************************************************************)
C14_NilIffCleanExit ==
    returned =>
        /\ exec.ret.err = NoErr <=> cleanExit
        /\ textSurfaced

(***************************************************************************)
(* C14, amended.  The call returns no error iff the process was spawned,   *)
(* wrote no line longer than the scanner's buffer, and exited with status  *)
(* zero; on a nonzero exit, a failed spawn, a kill at the deadline or a    *)
(* read error it returns an error with the text captured up to the         *)
(* failure.                                                                *)
(***************************************************************************)
C14_ResultContract ==
    returned =>
        /\ exec.ret.err = NoErr <=>
               cleanExit /\ \A ln \in lineSet(exec.produced) : ~ln.long
        /\ textSurfaced

C14_Witness ==
    /\ returned
    /\ exec.ret.err = ErrKilled
    /\ Len(exec.ret.out) >= 2
    /\ Len(exec.produced) < Len(exec.script)

(***************************************************************************)
(* C17.  The text returned after the output was read to its end has the    *)
(* lines of the process in the order in which the process wrote them.      *)
(* The code reads all of standard output before any of standard error.     *)
(***************************************************************************)
C17_OrderPreserved ==
    returned /\ exec.reaped => exec.ret.out = exec.produced

(***************************************************************************)
(* C18.  A call spawns at most one process, and when it has returned the   *)
(* process is not running and has been waited for.  After a read error     *)
(* the code returns without cmd.Wait().                                    *)
(***************************************************************************)
C18_NoProcessLeft ==
    /\ exec.spawned <= 1
    /\ returned /\ exec.spawned = 1 => exec.state # "running" /\ exec.reaped

(***************************************************************************)
(* C15.  When the clear-cache handler returns an ok Event, no file that    *)
(* matched the pattern when it enumerated is left; it attempts a removal   *)
(* of every matched file.  The code ignores the result of os.Remove and    *)
(* reports ok whether or not the files are gone.                           *)
(***************************************************************************)
C15_step ==
    returns(StageClearCache) =>
        \A m \in msgs' \ msgs :
            /\ m.ev.Status = StatusOK => fs.cache \cap fs'.cache = {}
            /\ Len(fsLog') - Len(fsLog) = Cardinality(fs.cache)
            /\ m.ev.Status \in {StatusOK, StatusWarn}

C15_OkMeansDeleted == [][C15_step]_vars

(***************************************************************************)
(* C16.  When local.sqlite exists the last-resort handler attempts one     *)
(* rename to local.sqlite.bak.  If the rename fails it returns warn and    *)
(* runs no command; if it succeeds the handler runs exactly pkg update -f  *)
(* and then pkg check -da, and returns ok with the detail naming the two   *)
(* paths, whatever those two commands return.                              *)
(***************************************************************************)
C16_step ==
    returns(StageMoveLocalDB) /\ fs.localDB =>
        LET cmds == SubSeq(cmdLog', Len(cmdLog) + 1, Len(cmdLog'))
            ops == SubSeq(fsLog', Len(fsLog) + 1, Len(fsLog'))
        IN  /\ Len(ops) = 1
            /\ ops[1].op = "rename" /\ ops[1].path = LocalDB
            /\ \A m \in msgs' \ msgs :
                 IF ops[1].ok
                 THEN /\ fs' = [fs EXCEPT !.localDB = FALSE, !.backup = TRUE]
                      /\ argvs(cmds) = <<ArgvUpdate, ArgvCheckDA>>
                      /\ m.ev.Status = StatusOK
                      /\ m.ev.Detail = LocalDB \o Arrow \o LocalDB \o BackupSuffix
                 ELSE /\ fs' = fs
                      /\ cmds = <<>>
                      /\ m.ev.Status = StatusWarn

C16_LastResort == [][C16_step]_vars

C16_Witness ==
    /\ done
    /\ fs.backup /\ ~fs.localDB
    /\ events[8].Stage = StageMoveLocalDB
    /\ events[8].Status = StatusOK
    /\ Len(cmdsAt(7)) = 2
    /\ cmdsAt(7)[1].failed /\ cmdsAt(7)[2].failed

C16_WitnessRenameFails ==
    /\ done
    /\ fs.localDB
    /\ events[8].Status = StatusWarn
    /\ cmdsAt(7) = <<>>

(***************************************************************************)
(* C19.  The detail of every recorded Event is at most 300 bytes long,     *)
(* and at most 200 for the ok Event of a command-running stage (forced     *)
(* update, verify, recompute).  Only runAndReport cuts its text with       *)
(* tail: the details of the network check (a line per repository) and of   *)
(* the clear-cache stage (a line per file) have no bound.                  *)
(***************************************************************************)
commandStages == {StagePkgUpdate, StagePkgCheckDA, StagePkgRecompute}

C19_DetailBounded ==
    \A i \in DOMAIN events :
        /\ Len(events[i].Detail) <= 300
        /\ events[i].Stage \in commandStages /\ events[i].Status = StatusOK =>
               Len(events[i].Detail) <= 200

(***************************************************************************)
(* C20.  The view shows the i-th entry of the stage list as pending until  *)
(* the Event of the i-th handler is recorded, and from then on with that   *)
(* Event's status, message and detail.  stMap is keyed by stage, not by    *)
(* position: the two verify entries share one Event, so the second is      *)
(* shown done while recompute runs, and the first takes the second's       *)
(* result afterwards.                                                      *)
(***************************************************************************)
C20_ViewPerPosition ==
    \A i \in DOMAIN stOrder :
        IF i > Len(events)
        THEN viewStage(i).pending
        ELSE /\ ~viewStage(i).pending
             /\ viewStage(i).status = events[i].Status
             /\ viewStage(i).message = events[i].Message
             /\ viewStage(i).detail = events[i].Detail

(***************************************************************************)
(* C21.  Under fair scheduling a run that has started reaches its          *)
(* terminal state (done), after at most 8 handler executions.  It is done  *)
(* exactly when the Event of the last list entry (index 7) has been acted  *)
(* on, and then it is Completed (no error; nothing in the code halts a     *)
(* run earlier); the index never exceeds the length of the stage list;     *)
(* once done no handler is requested or running and the Events no longer   *)
(* change.                                                                 *)
(***************************************************************************)
C21_Bounded ==
    /\ idx <= Len(stOrder)
    /\ Len(started) <= 8
    /\ done <=> idx = Len(stOrder)
    /\ done => /\ Len(events) = 8
               /\ events[8].Stage = stOrder[8]
               /\ err = NoErr
               /\ inflight = {}
               /\ nextStageMsg \notin msgs

C21_Terminal == done => done' /\ events' = events /\ started' = started

C21_Termination ==
    /\ (phase = "running") ~> done
    /\ [] C21_Bounded
    /\ [][C21_Terminal]_vars

C21_Witness ==
    /\ phase = "exited"
    /\ done
    /\ idx = 8
    /\ started = <<0, 1, 2, 3, 4, 5, 6, 7>>
    /\ exitCode = 0

=============================================================================
